---------------------------- MODULE Spec2Model ----------------------------
(***************************************************************************)
(* Contractive recurrent equilibrium network (src/contractive_REN.py):     *)
(* the map from the free parameters to the derived matrices                *)
(* (_update_model_param), the per-step recurrence (forward), reset and the *)
(* sequence runner (run).                                                  *)
(*                                                                         *)
(* Numbers.  Tensor entries are modelled as extended rationals <<n, d>>:   *)
(* d > 0 is the reduced fraction n/d, <<1,0>> and <<-1,0>> are +inf and    *)
(* -inf, <<0,0>> is NaN, with the IEEE rules for them (x/0, 0*inf, ...).   *)
(* Values are compared as stored: NaN is one value and equals itself.      *)
(* Linear algebra is therefore exact.  tanh is transcendental; it is       *)
(* modelled by an odd, nondecreasing, 1-Lipschitz, saturating piecewise-   *)
(* linear function with tanh(0) = 0 and |tanh| <= 1 (see Tanh).            *)
(*                                                                         *)
(* Batch.  Every batch entry is processed with the same arithmetic; the    *)
(* model follows one batch entry (batch_size = 1).                         *)
(***************************************************************************)
EXTENDS Integers, Sequences, FiniteSets, TLC

\* ------------------------------------------------------------------------
\* Dimensions (constructor arguments dim_in, dim_out, dim_internal, dim_nl)
\* ------------------------------------------------------------------------
dim_in == 1
dim_out == 1
dim_internal == 2
dim_nl == 2

\* ------------------------------------------------------------------------
\* Bounds of the model
\* ------------------------------------------------------------------------
\* number of free-parameter tuples the optimizer can move between
NTheta == 2
\* longest input sequence handed to run
MaxT == 3
\* most forward steps taken on one trajectory (since the last reset)
MaxDepth == 2
\* length of the all-zero input sequence run on an instance with x_init = 0
ZeroRunT == 5

\* ------------------------------------------------------------------------
\* Extended rational arithmetic (float tensors entries)
\* ------------------------------------------------------------------------
Abs(a) == IF a < 0 THEN -a ELSE a

Sign(a) == IF a < 0 THEN -1 ELSE IF a > 0 THEN 1 ELSE 0

RECURSIVE GCD(_, _)
GCD(a, b) == IF b = 0 THEN a ELSE GCD(b, a % b)

NaN == <<0, 0>>

Inf(s) == <<s, 0>>

\* the reduced fraction n/d for d # 0
Norm(n, d) ==
    LET g == GCD(Abs(n), Abs(d))
        s == IF d < 0 THEN -1 ELSE 1
    IN  <<s * (n \div g), s * (d \div g)>>

R(k) == <<k, 1>>

IsNaN(a) == a = NaN

IsInf(a) == a[2] = 0 /\ a[1] # 0

IsFinite(a) == a[2] > 0

RNeg(a) == <<-a[1], a[2]>>

\* finite a + b over the least common denominator
FAdd(a, b) ==
    LET g == GCD(a[2], b[2])
    IN  Norm(a[1] * (b[2] \div g) + b[1] * (a[2] \div g), (a[2] \div g) * b[2])

\* finite a * b, cancelling across before multiplying
FMul(a, b) ==
    LET g1 == GCD(Abs(a[1]), b[2])
        g2 == GCD(Abs(b[1]), a[2])
    IN  <<(a[1] \div g1) * (b[1] \div g2), (a[2] \div g2) * (b[2] \div g1)>>

RAdd(a, b) ==
    IF a[2] = 1 /\ b[2] = 1 THEN <<a[1] + b[1], 1>>
    ELSE IF IsNaN(a) \/ IsNaN(b) THEN NaN
    ELSE IF IsInf(a) THEN (IF IsInf(b) /\ b[1] # a[1] THEN NaN ELSE a)
    ELSE IF IsInf(b) THEN b
    ELSE IF a[1] = 0 THEN b
    ELSE IF b[1] = 0 THEN a
    ELSE FAdd(a, b)

RMul(a, b) ==
    IF a[2] = 1 /\ b[2] = 1 THEN <<a[1] * b[1], 1>>
    ELSE IF IsNaN(a) \/ IsNaN(b) THEN NaN
    ELSE IF IsInf(a) \/ IsInf(b)
         THEN (IF a[1] = 0 \/ b[1] = 0 THEN NaN ELSE Inf(Sign(a[1]) * Sign(b[1])))
    ELSE IF a[1] = 0 \/ b[1] = 0 THEN R(0)
    ELSE FMul(a, b)

RDiv(a, b) ==
    IF IsNaN(a) \/ IsNaN(b) THEN NaN
    ELSE IF IsInf(a) THEN (IF IsInf(b) THEN NaN
                           ELSE Inf(a[1] * (IF b[1] < 0 THEN -1 ELSE 1)))
    ELSE IF IsInf(b) THEN R(0)
    ELSE IF b[1] = 0 THEN (IF a[1] = 0 THEN NaN ELSE Inf(Sign(a[1])))
    ELSE IF a[1] = 0 THEN R(0)
    ELSE FMul(a, <<Sign(b[1]) * b[2], Abs(b[1])>>)

RSub(a, b) == RAdd(a, RNeg(b))

\* a < b for finite a, b
RLess(a, b) ==
    LET g == GCD(a[2], b[2])
    IN  a[1] * (b[2] \div g) < b[1] * (a[2] \div g)

\* torch.tanh: odd, nondecreasing, slope within [0, 1], saturating at +-1:
\*   |z| <= 1/2 : z;  1/2 <= |z| <= 3/2 : sign(z) * (|z| + 1/2) / 2;  else sign(z)
Tanh(z) ==
    IF IsNaN(z) THEN NaN
    ELSE IF IsInf(z) THEN R(z[1])
    ELSE LET s == Sign(z[1])
             m == <<Abs(z[1]), z[2]>>
         IN  IF ~RLess(<<1, 2>>, m) THEN z
             ELSE IF RLess(m, <<3, 2>>)
                  THEN RMul(R(s), RMul(<<1, 2>>, RAdd(m, <<1, 2>>)))
             ELSE R(s)

\* ------------------------------------------------------------------------
\* Vectors and matrices (a matrix is the sequence of its rows)
\* ------------------------------------------------------------------------
RECURSIVE SumTo(_, _)
SumTo(f, k) == IF k = 0 THEN R(0) ELSE RAdd(SumTo(f, k - 1), f[k])

\* sum of a sequence of rationals, left to right
RSum(f) == SumTo(f, Len(f))

\* the sequence f with its entries computed: tensors are stored values
Vec(f) == f \o <<>>

Dot(a, b) == RSum(Vec([j \in 1..Len(a) |-> RMul(a[j], b[j])]))

\* torch.nn.functional.linear(v, W) = v W^T
linear(v, W) == Vec([i \in 1..Len(W) |-> Dot(W[i], v)])

VAdd(a, b) == Vec([i \in 1..Len(a) |-> RAdd(a[i], b[i])])

VScale(c, a) == Vec([i \in 1..Len(a) |-> RMul(c, a[i])])

RVec(v) == Vec([i \in 1..Len(v) |-> R(v[i])])

RMat(M) == Vec([i \in 1..Len(M) |-> RVec(M[i])])

ZeroVec(k) == Vec([i \in 1..k |-> R(0)])

Transpose(M) == Vec([j \in 1..Len(M[1]) |-> Vec([i \in 1..Len(M) |-> M[i][j]])])

MatMul(A, B) ==
    Vec([i \in 1..Len(A) |-> Vec([j \in 1..Len(B[1]) |->
        RSum(Vec([k \in 1..Len(B) |-> RMul(A[i][k], B[k][j])]))])])

Eye(k) == Vec([i \in 1..k |-> Vec([j \in 1..k |-> IF i = j THEN R(1) ELSE R(0)])])

\* rows r0+1..r0+nr and columns c0+1..c0+nc of M (torch.split, twice)
Block(M, r0, nr, c0, nc) ==
    Vec([i \in 1..nr |-> Vec([j \in 1..nc |-> M[r0 + i][c0 + j]])])


\* submatrix of M without row r and column c
Minor(M, r, c) ==
    Vec([i \in 1..(Len(M) - 1) |-> Vec([j \in 1..(Len(M) - 1) |->
        M[IF i < r THEN i ELSE i + 1][IF j < c THEN j ELSE j + 1]])])

RECURSIVE Det(_)
Det(M) ==
    IF Len(M) = 0 THEN R(1)
    ELSE IF Len(M) = 1 THEN M[1][1]
    ELSE RSum(Vec([j \in 1..Len(M) |->
            RMul(R(IF j % 2 = 1 THEN 1 ELSE -1), RMul(M[1][j], Det(Minor(M, 1, j))))]))

\* torch.Tensor.inverse of a nonsingular matrix: adjugate over determinant
Inverse(M) ==
    LET d == Det(M)
    IN  Vec([i \in 1..Len(M) |-> Vec([j \in 1..Len(M) |->
            RDiv(RMul(R(IF (i + j) % 2 = 0 THEN 1 ELSE -1), Det(Minor(M, j, i))), d)])])

\* torch raises on a singular matrix instead of returning an inverse
IsSingular(M) == Det(M) = R(0)

\* ------------------------------------------------------------------------
\* Free parameters: X, Y, B2, C2, D21, D22, D12 with the shapes of __init__.
\* torch.randn draws them and the optimizer moves them; the model draws the
\* tuple from the family Theta(1), ..., Theta(NTheta) of integer matrices.
\* ------------------------------------------------------------------------
dimH == 2 * dim_internal + dim_nl

XTable ==
    << << <<0, 0, 0, 0, 0, 0>>,
          <<0, 0, 0, 0, 0, 0>>,
          <<0, 0, 0, 0, 0, 0>>,
          <<0, 0, 0, 0, 0, 0>>,
          <<0, 0, 0, 0, 0, 0>>,
          <<0, 0, 0, 0, 0, 0>> >>,
       << <<1, 1, 0, 0, 1, 0>>,
          <<0, 1, 1, 0, 0, 0>>,
          <<0, 0, 1, 1, 0, 0>>,
          <<0, 0, 0, 1, 1, 0>>,
          <<0, 0, 0, 0, 1, 1>>,
          <<0, 0, 0, 0, 0, 1>> >>,
       << <<1, 0, -1, 0, 0, 1>>,
          <<0, 1, 0, -1, 0, 0>>,
          <<0, 0, 0, 0, 0, 0>>,
          <<1, 0, 1, 1, -1, 0>>,
          <<0, 0, 0, 0, 0, 0>>,
          <<0, -1, 1, 0, 0, 1>> >>,
       << <<0, 1, 0, 0, 0, -1>>,
          <<1, 0, 0, 1, 0, 0>>,
          <<0, 0, 1, 0, 0, 0>>,
          <<0, 0, -1, 1, 0, 0>>,
          <<0, 1, 0, 0, 1, 0>>,
          <<0, 0, 0, 0, 0, 1>> >> >>

Theta(k) ==
    [ X   |-> IF k <= Len(XTable) /\ dimH = 6 THEN XTable[k]
              ELSE [i \in 1..dimH |-> [j \in 1..dimH |->
                       IF i = j THEN 1
                       ELSE IF j = i + 1 THEN ((k + i) % 3) - 1
                       ELSE IF i = j + 3 THEN (k % 2) ELSE 0]],
      Y   |-> [i \in 1..dim_internal |-> [j \in 1..dim_internal |->
                 IF k = 1 THEN (i * j) % 2 ELSE ((i + 2 * j + k) % 3) - 1]],
      B2  |-> [i \in 1..dim_internal |-> [j \in 1..dim_in |-> ((i + j + k) % 3) - 1]],
      C2  |-> [i \in 1..dim_out |-> [j \in 1..dim_internal |-> ((i + j + 2 * k) % 3) - 1]],
      D21 |-> [i \in 1..dim_out |-> [j \in 1..dim_nl |-> ((i + 2 * j + k) % 3) - 1]],
      D22 |-> [i \in 1..dim_out |-> [j \in 1..dim_in |-> ((i + j + k + 1) % 3) - 1]],
      D12 |-> [i \in 1..dim_nl |-> [j \in 1..dim_in |-> ((2 * i + j + k) % 3) - 1]] ]

\* ------------------------------------------------------------------------
\* _update_model_param: the derived matrices from the free parameters
\* ------------------------------------------------------------------------
RECURSIVE ColDot(_, _, _, _)
\* sum over rows r = 1..k of X_[r][i] * X_[r][j]: entry (i, j) of X^T X
ColDot(X_, i, j, k) ==
    IF k = 0 THEN 0 ELSE ColDot(X_, i, j, k - 1) + X_[k][i] * X_[k][j]

\* X^T X alone, without the epsilon * eye_mask_H term
HmatNoTol(X_, eps) ==
    Vec([i \in 1..dimH |-> Vec([j \in 1..dimH |-> R(ColDot(X_, i, j, dimH))])])

\* H = X^T X + epsilon * eye_mask_H
Hmat(X_, eps) ==
    Vec([i \in 1..dimH |-> Vec([j \in 1..dimH |->
        R(ColDot(X_, i, j, dimH) + eps * (IF i = j THEN 1 ELSE 0))])])

\* the blocks of H for the split sizes (dim_internal, dim_nl, dim_internal)
H11(H) == Block(H, 0, dim_internal, 0, dim_internal)
H21(H) == Block(H, dim_internal, dim_nl, 0, dim_internal)
H22(H) == Block(H, dim_internal, dim_nl, dim_internal, dim_nl)
H31(H) == Block(H, dim_internal + dim_nl, dim_internal, 0, dim_internal)
H32(H) == Block(H, dim_internal + dim_nl, dim_internal, dim_internal, dim_nl)
H33(H) == Block(H, dim_internal + dim_nl, dim_internal, dim_internal + dim_nl, dim_internal)

\* E = 0.5 * (H11 + contraction_rate_lb * P + Y - Y^T), P = H33
Emat(H, Y_, rho) ==
    LET P  == H33(H)
        h  == H11(H)
    IN  Vec([i \in 1..dim_internal |-> Vec([j \in 1..dim_internal |->
            RMul(<<1, 2>>,
                 RAdd(RAdd(RAdd(h[i][j], RMul(R(rho), P[i][j])), R(Y_[i][j])),
                      RNeg(R(Y_[j][i]))))])])

\* Lambda = 0.5 * diag(H22)
LambdaVec(H) ==
    LET h == H22(H) IN Vec([i \in 1..dim_nl |-> RMul(<<1, 2>>, h[i][i])])

\* -tril(H22) with the diagonal kept
D11matDiag(H) ==
    LET h == H22(H)
    IN  Vec([i \in 1..dim_nl |-> Vec([j \in 1..dim_nl |->
            IF j <= i THEN RNeg(h[i][j]) ELSE R(0)])])

\* D11 = -tril(H22, diagonal=-1)
D11mat(H) ==
    LET h == H22(H)
    IN  Vec([i \in 1..dim_nl |-> Vec([j \in 1..dim_nl |->
            IF j < i THEN RNeg(h[i][j]) ELSE R(0)])])

\* C1 = -H21
C1mat(H) ==
    LET h == H21(H)
    IN  Vec([i \in 1..dim_nl |-> Vec([j \in 1..dim_internal |-> RNeg(h[i][j])])])

\* The fields _update_model_param assigns, in its order: F, B1, E, then
\* E_inv = E.inverse(), which raises when E is singular and leaves E_inv,
\* Lambda, D11, C1 as they were (old).
UpdateModelParam(X_, Y_, eps, rho, old) ==
    LET H  == Hmat(X_, eps)
        E_ == Emat(H, Y_, rho)
    IN  IF IsSingular(E_)
        THEN [old EXCEPT !.F = H31(H), !.B1 = H32(H), !.E = E_, !.raised = TRUE]
        ELSE [ F |-> H31(H), B1 |-> H32(H), E |-> E_, E_inv |-> Inverse(E_),
               Lambda |-> LambdaVec(H), D11 |-> D11mat(H), C1 |-> C1mat(H),
               raised |-> FALSE ]


\* ------------------------------------------------------------------------
\* State of one ContractiveREN instance
\* ------------------------------------------------------------------------
VARIABLES
    epsilon, contraction_rate_lb,          \* configuration set by __init__
    X, Y, B2, C2, D21, D22, D12,           \* free (trainable) parameters
    F, B1, E, E_inv, Lambda, D11, C1,      \* derived fields (<<>>: not assigned yet)
    x, x_init, y_init,                     \* internal state and its initial value
    x_is_x_init,                           \* self.x is the tensor object self.x_init
    depth,                                 \* forward steps since the last reset
    ret                                    \* the last call: its arguments, its result,
                                           \* the last forward step it made (x_pre, u, w),
                                           \* and what it found on entry (stale, dirty)

config == <<epsilon, contraction_rate_lb>>
params == <<X, Y, B2, C2, D21, D22, D12>>
derived == <<F, B1, E, E_inv, Lambda, D11, C1>>
vars == <<config, params, derived, x, x_init, y_init, x_is_x_init, depth, ret>>

\* the derived fields as one record
Fields == [ F |-> F, B1 |-> B1, E |-> E, E_inv |-> E_inv, Lambda |-> Lambda,
            D11 |-> D11, C1 |-> C1, raised |-> FALSE ]

NoFields == [ F |-> <<>>, B1 |-> <<>>, E |-> <<>>, E_inv |-> <<>>, Lambda |-> <<>>,
              D11 |-> <<>>, C1 |-> <<>>, raised |-> FALSE ]

\* ------------------------------------------------------------------------
\* forward
\* ------------------------------------------------------------------------
\* derived fields computed once and kept: no refresh when all are assigned
CachedParam(old) ==
    IF old.F = <<>> \/ old.E_inv = <<>>
    THEN UpdateModelParam(X, Y, epsilon, contraction_rate_lb, old)
    ELSE old

\* self._update_model_param() at the head of forward
RefreshedParam(old) == UpdateModelParam(X, Y, epsilon, contraction_rate_lb, old)

\* v = linear(x, C1[i,:]) + linear(w, D11[i,:]) + linear(u_in, D12[i,:])
vOf(i, xv, w, u, d) ==
    RAdd(RAdd(Dot(d.C1[i], xv), Dot(d.D11[i], w)), Dot(RVec(D12[i]), u))

\* w + eye_mask_w[i,:] * tanh(v / Lambda[i])
wUpdate(i, xv, w, u, d) ==
    LET t == Tanh(RDiv(vOf(i, xv, w, u, d), d.Lambda[i]))
    IN  VAdd(w, VScale(t, Eye(dim_nl)[i]))

\* the loop "for i in range(dim_nl)" after i iterations, from w = zeros
RECURSIVE wLoop(_, _, _, _)
wLoop(i, xv, u, d) ==
    IF i = 0 THEN ZeroVec(dim_nl)
    ELSE wUpdate(i, xv, wLoop(i - 1, xv, u, d), u, d)

\* self.x = linear(linear(x, F) + linear(w, B1) + linear(u_in, B2), E_inv)
xNext(xv, w, u, d) ==
    linear(VAdd(VAdd(linear(xv, d.F), linear(w, d.B1)), linear(u, RMat(B2))), d.E_inv)

\* the output computed from the state before its update
OutputStatePre(xv, xn) == xv

\* an update of self.x in place, which writes through to the tensor x_init
\* when self.x is that tensor (al)
StoredInPlace(al, xi, xn) == IF al THEN xn ELSE xi

\* the value of the tensor x_init (xi) after "self.x = ..." stores the new
\* state xn: the assignment rebinds self.x and writes to no tensor, also
\* when self.x was the tensor x_init (al)
StoredXInit(al, xi, xn) == xi

\* the state the output is computed from: self.x, read after its assignment
OutputState(xv, xn) == xn

\* y_out = linear(self.x, C2) + linear(w, D21) + linear(u_in, D22)
yOut(xo, w, u) ==
    VAdd(VAdd(linear(xo, RMat(C2)), linear(w, RMat(D21))), linear(u, RMat(D22)))

\* One call forward(u) from state xv with derived fields old: the fields after
\* it, whether it raised, the state after it, w and the returned y_out.
ForwardCall(xv, u, old) ==
    LET d == RefreshedParam(old)
    IN  IF d.raised
        THEN [ d |-> d, raised |-> TRUE, x |-> xv, w |-> <<>>, y |-> <<>> ]
        ELSE LET w  == wLoop(dim_nl, xv, u, d)
                 xn == xNext(xv, w, u, d)
             IN  [ d |-> d, raised |-> FALSE, x |-> xn, w |-> w,
                   y |-> yOut(OutputState(xv, xn), w, u) ]

\* ------------------------------------------------------------------------
\* run
\* ------------------------------------------------------------------------
\* a loop over every time index, "for t in range(u_in.shape[1])"
NIterAll(T) == T

\* number of iterations of "for t in range(u_in.shape[1] - 1)"
NIter(T) == IF T - 1 > 0 THEN T - 1 ELSE 0

\* a reset that keeps the state
NoReset(xcur) == xcur

\* reset(): the value self.x takes, whatever it was (xcur)
ResetValue(xcur) == x_init

\* every iteration restarted from the initial state
StepFromInit(prev) == x_init

\* the state a forward inside run starts from: self.x as the iteration
\* before it (prev) left it
StepState(prev) == prev.x

\* run(u_in), entered in state xcur, after reset() and k iterations of its
\* loop: y_log so far, the state, the derived fields, and the last forward's
\* x before it, input and w.  An iteration whose forward raises ends the loop
\* (the exception leaves run).
RECURSIVE RunLoop(_, _, _, _)
RunLoop(k, u_in, xcur, old) ==
    IF k = 0
    THEN [ d |-> old, raised |-> FALSE, x |-> ResetValue(xcur),
           y_log |-> <<y_init>>, steps |-> 0,
           x_pre |-> <<>>, u |-> <<>>, w |-> <<>> ]
    ELSE LET prev == RunLoop(k - 1, u_in, xcur, old)
         IN  IF prev.raised THEN prev
             ELSE LET fw == ForwardCall(StepState(prev), u_in[k], prev.d)
                  IN  IF fw.raised
                      THEN [prev EXCEPT !.d = fw.d, !.raised = TRUE]
                      ELSE [ d |-> fw.d, raised |-> FALSE, x |-> fw.x,
                             y_log |-> Append(prev.y_log, fw.y),
                             steps |-> prev.steps + 1,
                             x_pre |-> StepState(prev), u |-> u_in[k], w |-> fw.w ]

RunCall(u_in, xcur, old) == RunLoop(NIter(Len(u_in)), u_in, xcur, old)

\* ------------------------------------------------------------------------
\* __init__
\* ------------------------------------------------------------------------
\* (pos_def_tol, contraction_rate_lb) handed to the constructor
ConfigSet == { <<1, 1>>, <<2, 2>>, <<0, 1>>, <<-2, 1>>, <<1, 0>> }

\* (internal_state_init, y_init) handed to the constructor; "none" is None
InitArgs == { [internal_state_init |-> "none", y_init |-> "none"],
              [internal_state_init |-> <<1, -1>>, y_init |-> "none"],
              [internal_state_init |-> "none", y_init |-> <<2>>] }

\* torch.linalg.lstsq(C2, y)[0] for a C2 of one row (dim_out = 1): the
\* minimum-norm solution C2^T y / (C2 C2^T), zero when C2 is zero
Lstsq(C2_, y) ==
    LET c  == RVec(C2_[1])
        cc == Dot(c, c)
    IN  IF cc = R(0) THEN ZeroVec(dim_internal)
        ELSE Vec([j \in 1..dim_internal |-> RDiv(RMul(c[j], R(y[1])), cc)])

\* the initial internal state chosen by __init__
InitialState(a, C2_) ==
    IF a.internal_state_init = "none"
    THEN IF a.y_init = "none" THEN ZeroVec(dim_internal) ELSE Lstsq(C2_, a.y_init)
    ELSE RVec(a.internal_state_init)

NoCall(op) == [ op |-> op, u_in |-> <<>>, raised |-> FALSE, y |-> <<>>, steps |-> 0,
                x_pre |-> <<>>, u |-> <<>>, w |-> <<>>, stale |-> FALSE,
                dirty |-> FALSE ]

Init ==
    \E cfg \in ConfigSet, k \in 1..NTheta, a \in InitArgs :
        /\ epsilon = cfg[1]
        /\ contraction_rate_lb = cfg[2]
        /\ X = Theta(k).X /\ Y = Theta(k).Y /\ B2 = Theta(k).B2 /\ C2 = Theta(k).C2
        /\ D21 = Theta(k).D21 /\ D22 = Theta(k).D22 /\ D12 = Theta(k).D12
        /\ F = <<>> /\ B1 = <<>> /\ E = <<>> /\ E_inv = <<>>
        /\ Lambda = <<>> /\ D11 = <<>> /\ C1 = <<>>
        /\ x = InitialState(a, Theta(k).C2)
        /\ x_init = x
        /\ x_is_x_init = FALSE
        /\ y_init = linear(x, RMat(Theta(k).C2))
        /\ depth = 0
        /\ ret = NoCall("init")

\* ------------------------------------------------------------------------
\* Operations
\* ------------------------------------------------------------------------
\* input vectors and input sequences
USet == {0, 1}
UVecs == { RVec(v) : v \in [1..dim_in -> USet] }
USeqs == UNION { [1..T -> UVecs] : T \in 0..MaxT }
\* the all-zero input sequence of length T
ZeroInput(T) == [t \in 1..T |-> ZeroVec(dim_in)]

SetFields(d) ==
    /\ F' = d.F /\ B1' = d.B1 /\ E' = d.E /\ E_inv' = d.E_inv
    /\ Lambda' = d.Lambda /\ D11' = d.D11 /\ C1' = d.C1

\* whether a refresh giving fields d found assigned fields that differ from d
Stale(d) == F # <<>> /\ [d EXCEPT !.raised = FALSE] # Fields

\* y = forward(u)
Forward(u) ==
    /\ depth < MaxDepth
    /\ \E fw \in {ForwardCall(x, u, Fields)} :
           /\ SetFields(fw.d)
           /\ x' = fw.x
           /\ x_init' = IF fw.raised THEN x_init
                         ELSE StoredXInit(x_is_x_init, x_init, fw.x)
           /\ x_is_x_init' = IF fw.raised THEN x_is_x_init ELSE FALSE
           /\ depth' = IF fw.raised THEN depth ELSE depth + 1
           /\ ret' = [ op |-> "forward", u_in |-> <<u>>, raised |-> fw.raised,
                       y |-> IF fw.raised THEN <<>> ELSE <<fw.y>>,
                       steps |-> IF fw.raised THEN 0 ELSE 1,
                       x_pre |-> x, u |-> u, w |-> fw.w, stale |-> Stale(fw.d),
                       dirty |-> x # x_init ]
    /\ UNCHANGED <<config, params, y_init>>

\* reset()
Reset ==
    /\ x' = ResetValue(x)
    /\ x_is_x_init' = TRUE
    /\ depth' = 0
    /\ ret' = NoCall("reset")
    /\ UNCHANGED <<config, params, derived, x_init, y_init>>

\* y_log = run(u_in)
Run(u_in) ==
    /\ \E r \in {RunCall(u_in, x, Fields)} :
           /\ SetFields(r.d)
           /\ x' = r.x
           /\ x_init' = IF r.steps = 0 THEN x_init
                         ELSE StoredXInit(TRUE, x_init, r.x)
           /\ x_is_x_init' = (r.steps = 0)
           /\ depth' = r.steps
           /\ ret' = [ op |-> "run", u_in |-> u_in, raised |-> r.raised,
                       y |-> IF r.raised THEN <<>> ELSE r.y_log,
                       steps |-> r.steps,
                       x_pre |-> r.x_pre, u |-> r.u, w |-> r.w,
                       stale |-> r.steps > 0 /\ Stale(r.d), dirty |-> x # x_init ]
    /\ UNCHANGED <<config, params, y_init>>

\* optimizer.step(): the free parameters move to another tuple
ParamWrite(k) ==
    /\ params # <<Theta(k).X, Theta(k).Y, Theta(k).B2, Theta(k).C2,
                  Theta(k).D21, Theta(k).D22, Theta(k).D12>>
    /\ X' = Theta(k).X /\ Y' = Theta(k).Y /\ B2' = Theta(k).B2 /\ C2' = Theta(k).C2
    /\ D21' = Theta(k).D21 /\ D22' = Theta(k).D22 /\ D12' = Theta(k).D12
    /\ ret' = NoCall("write")
    /\ UNCHANGED <<config, derived, x, x_init, y_init, x_is_x_init, depth>>

Next ==
    \/ \E u \in UVecs : Forward(u)
    \/ Reset
    \/ \E u_in \in USeqs : Run(u_in)
    \/ x_init = ZeroVec(dim_internal) /\ Run(ZeroInput(ZeroRunT))
    \/ \E k \in 1..NTheta : ParamWrite(k)

Spec == Init /\ [][Next]_vars

\* ------------------------------------------------------------------------
\* Properties
\* ------------------------------------------------------------------------
\* every entry of a vector is a finite number
AllFinite(v) == \A i \in 1..Len(v) : IsFinite(v[i])

\* the output of the last forward step of the last call
LastY == ret.y[Len(ret.y)]

IsSymmetric(M) == \A i, j \in 1..Len(M) : M[i][j] = M[j][i]

\* M after eliminating its first row and column: the Schur complement of M[1][1]
Schur(M) ==
    Vec([i \in 1..(Len(M) - 1) |-> Vec([j \in 1..(Len(M) - 1) |->
        RSub(M[i + 1][j + 1], RDiv(RMul(M[i + 1][1], M[1][j + 1]), M[1][1]))])])

\* a symmetric M is positive definite iff every pivot of its elimination is > 0
RECURSIVE IsPosDef(_)
IsPosDef(M) ==
    IF Len(M) = 0 THEN TRUE
    ELSE RLess(R(0), M[1][1]) /\ IsPosDef(Schur(M))

\* the state of a fresh instance after t steps on u_in[1..t]
RECURSIVE StateAfter(_, _)
StateAfter(t, u_in) ==
    IF t = 0 THEN x_init
    ELSE ForwardCall(StateAfter(t - 1, u_in), u_in[t], NoFields).x

\* C1: after a forward step from state x_pre on input u, the vector w the
\* loop computed satisfies w[i] = tanh((C1[i] x_pre + D11[i] w + D12[i] u) /
\* Lambda[i]) in every coordinate i, with the whole final w on the right-hand
\* side, and D11 is strictly lower triangular.
C1_TriangularSolve ==
    ret.steps > 0 =>
        /\ \A i \in 1..dim_nl : \A j \in i..dim_nl : D11[i][j] = R(0)
        /\ \A i \in 1..dim_nl :
              ret.w[i] = Tanh(RDiv(RAdd(RAdd(Dot(C1[i], ret.x_pre), Dot(D11[i], ret.w)),
                                        Dot(RVec(D12[i]), ret.u)),
                                   Lambda[i]))

\* a step whose second coordinate of w really depends on a nonzero first one
C1_Witness ==
    /\ ret.steps > 0
    /\ AllFinite(ret.w)
    /\ ret.w[1] # R(0)
    /\ ret.w[2] # R(0)
    /\ D11[2][1] # R(0)

\* C2: after every forward step, also one that follows a write of the free
\* parameters, the derived fields are the ones computed from the free
\* parameters as they are now, and w and the new state are the ones these
\* fields give.
C2_FreshDerived ==
    ret.steps > 0 =>
        \E d \in {UpdateModelParam(X, Y, epsilon, contraction_rate_lb, NoFields)} :
            /\ Fields = d
            /\ ret.w = wLoop(dim_nl, ret.x_pre, ret.u, d)
            /\ x = xNext(ret.x_pre, ret.w, ret.u, d)

\* a step that found derived fields of an earlier parameter value
C2_Witness == ret.op = "forward" /\ ret.steps > 0 /\ ret.stale

\* C3: run(u_in) returns [y_init, step(u_in[1]), .., step(u_in[T-1])], each
\* step starting from the state the one before left, the first from x_init,
\* and leaves the state of the last step.
C3_RunSequence ==
    (ret.op = "run" /\ ~ret.raised) =>
        LET T == Len(ret.u_in)
            m == IF T = 0 THEN 0 ELSE T - 1
        IN  /\ Len(ret.y) = m + 1
            /\ ret.y[1] = y_init
            /\ \A t \in 1..m :
                  ret.y[t + 1] =
                      ForwardCall(StateAfter(t - 1, ret.u_in), ret.u_in[t], NoFields).y
            /\ x = StateAfter(m, ret.u_in)

\* a run of two steps or more whose first step moved the state
C3_Witness ==
    /\ ret.op = "run" /\ ~ret.raised
    /\ ret.steps >= 2
    /\ ret.x_pre # x_init
    /\ AllFinite(LastY)

\* C4: run returns as many outputs as it got inputs, for every T.
C4_LengthIsHorizon ==
    (ret.op = "run" /\ ~ret.raised) => Len(ret.y) = Len(ret.u_in)

\* C5: a run on the same sequence with another last input returns the same
\* outputs and leaves the same state.
C5_LastInputUnused ==
    (ret.op = "run" /\ ~ret.raised /\ Len(ret.u_in) >= 1) =>
        \A v \in UVecs :
            \E r2 \in {RunCall([ret.u_in EXCEPT ![Len(ret.u_in)] = v], x, Fields)} :
                /\ ~r2.raised
                /\ r2.y_log = ret.y
                /\ r2.x = x

\* a run of at least one step whose last input is not zero
C5_Witness ==
    /\ ret.op = "run" /\ ~ret.raised
    /\ ret.steps >= 1
    /\ ret.u_in[Len(ret.u_in)] # ZeroVec(dim_in)
    /\ AllFinite(LastY)

\* C6: reset leaves x = x_init, and run returns the outputs and leaves the
\* state that the same run gives on a fresh instance (x = x_init, no derived
\* field assigned), whatever the state was when it was called.
C6_ResetAndRun ==
    /\ ret.op = "reset" => x = x_init
    /\ (ret.op = "run" /\ ~ret.raised) =>
           \E r \in {RunCall(ret.u_in, x_init, NoFields)} :
               ret.y = r.y_log /\ x = r.x

\* a run of at least one step called in a state other than x_init
C6_Witness ==
    /\ ret.op = "run" /\ ~ret.raised
    /\ ret.dirty
    /\ ret.steps >= 1
    /\ x # x_init

C8_PosDef ==
    epsilon > 0 =>
        \E H \in {Hmat(X, epsilon)} :
            /\ IsSymmetric(H)
            /\ IsPosDef(H)
            /\ \A i \in 1..dim_nl : RLess(R(0), LambdaVec(H)[i])
            /\ Lambda # <<>> => \A i \in 1..dim_nl : RLess(R(0), Lambda[i])

\* epsilon > 0 and, after a parameter write, an X whose X^T X is not
\* positive definite
C8_Witness ==
    /\ epsilon > 0
    /\ ret.op = "write"
    /\ ~IsPosDef(Vec([i \in 1..dimH |-> Vec([j \in 1..dimH |->
                     R(ColDot(X, i, j, dimH))])]))

\* C9: whenever contraction_rate_lb > 0, the E that _update_model_param
\* assigned is invertible and the stored E_inv times E is the identity.
C9_EInvertible ==
    (contraction_rate_lb > 0 /\ E # <<>>) =>
        /\ ~IsSingular(E)
        /\ E_inv # <<>>
        /\ MatMul(E_inv, E) = Eye(dim_internal)

\* C10: no instance with pos_def_tol <= 0 or contraction_rate_lb <= 0 gets to
\* a call of forward or run.
C10_ConfigRejected ==
    (epsilon <= 0 \/ contraction_rate_lb <= 0) => ret.op \notin {"forward", "run"}

\* the state of an instance started in xa after t steps on u_in[1..t]
RECURSIVE StateFrom(_, _, _)
StateFrom(xa, t, u_in) ==
    IF t = 0 THEN xa
    ELSE ForwardCall(StateFrom(xa, t - 1, u_in), u_in[t], NoFields).x

\* a <= b
RLeq(a, b) == a = b \/ RLess(a, b)

\* squared Euclidean distance of two states
Dist2(a, b) == Dot(VAdd(a, VScale(R(-1), b)), VAdd(a, VScale(R(-1), b)))

\* squared distance of two states in the metric of the contraction
\* certificate, (E(a-b))^T P^-1 (E(a-b)) with P = H33
WDist2(a, b) ==
    LET e    == linear(VAdd(a, VScale(R(-1), b)), E)
        Pinv == Inverse(H33(Hmat(X, epsilon)))
    IN  Dot(e, linear(e, Pinv))

\* other initial states a second trajectory is started from
XaSet == { RVec(<<0, 0>>), RVec(<<2, 1>>), RVec(<<1, 2>>) }

\* C11: the distance between the trajectory of a run, started from x_init,
\* and the trajectory from any other initial state xa under the same inputs
\* does not grow over a step, in the Euclidean distance or in the metric of
\* the certificate.  Initial states being arbitrary, the step checked is
\* the first one.
C11_Contraction ==
    (ret.op = "run" /\ ret.steps >= 1) =>
        \A xa \in XaSet :
            \E a1 \in {StateFrom(xa, 1, ret.u_in)},
               b1 \in {StateFrom(x_init, 1, ret.u_in)} :
                \/ RLeq(Dist2(a1, b1), Dist2(xa, x_init))
                \/ RLeq(WDist2(a1, b1), WDist2(xa, x_init))

\* C12: no step of forward, reset, run or a parameter write changes
\* x_init or y_init.
C12_InitImmutable == [][x_init' = x_init /\ y_init' = y_init]_vars

\* a run reset x to the tensor x_init and its forward steps then stored
\* another state in x
C12_Witness ==
    /\ ret.op = "run" /\ ret.steps >= 1
    /\ ~x_is_x_init
    /\ x # x_init

\* C13: on an instance with x_init = 0, a run on an all-zero input
\* sequence of any length returns y_init at every time index, and its last
\* step started from x = 0, computed w = 0 and left x = 0 (the steps before
\* it are the last steps of the shorter runs).
C13_ZeroRun ==
    (ret.op = "run" /\ x_init = ZeroVec(dim_internal)
                    /\ ret.u_in = ZeroInput(Len(ret.u_in))) =>
        /\ ~ret.raised
        /\ \A t \in 1..Len(ret.y) : ret.y[t] = y_init
        /\ ret.steps >= 1 => /\ ret.x_pre = ZeroVec(dim_internal)
                             /\ ret.w = ZeroVec(dim_nl)
        /\ x = ZeroVec(dim_internal)

\* C14: the value a run logs at time 0 is C2 x_init for the C2 the
\* instance has when it runs.
C14_YInitCurrentC2 ==
    (ret.op = "run" /\ ~ret.raised) => ret.y[1] = linear(x_init, RMat(C2))

=============================================================================
